---- MODULE Spec2Model ----
(***************************************************************************)
(* Model of src/web_api.py: the /chat handler of the Tableau dashboard     *)
(* assistant.  One request runs chat(): build the Tableau context, build   *)
(* the prompt, call gemini_model.generate_content, normalise the answer,   *)
(* or end in the HTTP 500 of the outer except clause.                      *)
(*                                                                         *)
(* Text is a sequence of string fragments: a literal of the source is one  *)
(* fragment, an interpolated value is the fragments of its rendering, a    *)
(* cell or a model answer is one fragment per character.  The empty text   *)
(* is <<>>; no fragment is the empty string.                               *)
(*                                                                         *)
(* pandas is used as the code uses it (pandas 1.x/2.x, where               *)
(* errors='ignore' is accepted by pd.to_numeric).                          *)
(***************************************************************************)
EXTENDS Integers, Sequences, FiniteSets

VARIABLES request, pc, tableau_context, prompt, response, result, calls, gemini_model

vars == <<request, pc, tableau_context, prompt, response, result, calls, gemini_model>>

\* ---------------------------------------------------------------- bounds
MaxRows == 2
MaxCols == 2
MaxCells == 4

\* ------------------------------------------------------------- constants
MODEL_NAME == "gemini-2.5-flash"

NO_DATA_CONTEXT ==
    <<"No Tableau data was provided for context. Answer the question generally.">>

FALLBACK_ANSWER ==
    <<"I couldn't generate a response. The model may have blocked the content or the prompt was too vague. Please try rephrasing your question.">>

UNKNOWN_WORKSHEET == "Unknown worksheet"

RAW_DATA_START == "--- RAW DATA START ---\n"
RAW_DATA_END == "--- RAW DATA END ---\n"

\* ------------------------------------------------------- text primitives
DigitChars == <<"0", "1", "2", "3", "4", "5", "6", "7", "8", "9">>

IsDigit(c) == \E d \in 1..10 : DigitChars[d] = c

DigitVal(c) == (CHOOSE d \in 1..10 : DigitChars[d] = c) - 1

\* str(n) of a non-negative int
RECURSIVE IntText(_)
IntText(n) ==
    IF n < 10 THEN <<DigitChars[n + 1]>>
    ELSE IntText(n \div 10) \o <<DigitChars[(n % 10) + 1]>>

\* formatting of a float64 holding an integral value: 7.0
FloatText(n) == IntText(n) \o <<".", "0">>

RECURSIVE Join(_, _)
Join(parts, sep) ==
    IF parts = <<>> THEN <<>>
    ELSE IF Len(parts) = 1 THEN parts[1]
    ELSE parts[1] \o <<sep>> \o Join(Tail(parts), sep)

IsSpace(c) == c \in {" ", "\n", "\t", "\r"}

RECURSIVE LStrip(_)
LStrip(s) ==
    IF s = <<>> THEN <<>>
    ELSE IF IsSpace(Head(s)) THEN LStrip(Tail(s)) ELSE s

RECURSIVE RStrip(_)
RStrip(s) ==
    IF s = <<>> THEN <<>>
    ELSE IF IsSpace(s[Len(s)]) THEN RStrip(SubSeq(s, 1, Len(s) - 1)) ELSE s

\* `if not answer:` in place of `if not answer.strip():`
StripSkipped(s) == s

\* str.strip()
Strip(s) == RStrip(LStrip(s))

\* ------------------------------------------------------------ cell values
\* A JSON value of a row: a number, a string (one fragment per character)
\* or null.  After pd.to_numeric a cell may also be a float64 ("float").
IntCell(n) == [k |-> "int", n |-> n, s |-> <<>>]
StrCell(s) == [k |-> "str", n |-> 0, s |-> s]
FloatCell(n) == [k |-> "float", n |-> n, s |-> <<>>]
None == [k |-> "null", n |-> 0, s |-> <<>>]

\* the values the rows of a payload are drawn from: a number, a string that
\* parses as a number and one that does not (a null enters a frame where a
\* short row is padded)
Cells == {IntCell(100), StrCell(<<"0", "7">>), StrCell(<<"N", "/", "A">>)}

\* the column headers of a payload with M columns
ColumnNames == <<"Region", "Revenue", "Units", "Year">>

SheetNames == {"Sales"}

Messages == {"Hello", "Total revenue?"}

\* ---------------------------------------------------------- the payload
\* request.tableau is None or a dict; a dict is a function on a subset of
\* {"sheetName", "columns", "rows"}.  The value of "rows" is a list of lists
\* of cells, or something that is no list at all (a scalar).
RowsList(v) == [list |-> TRUE, v |-> v]
RowsScalar == [list |-> FALSE, v |-> <<>>]

\* dict.get(key, default)
Get(d, key, default) == IF key \in DOMAIN d THEN d[key] ELSE default

\* `request.tableau or {}`: None and the empty dict both give {}
TableauInfo(tableau) == IF tableau.is_none \/ DOMAIN tableau.d = {} THEN <<>> ELSE tableau.d

\* `if tableau_info is not None:` in place of `if tableau_info:`
TruthyNotNone(d) == TRUE

\* `if tableau_info:` the truth value of a dict
Truthy(d) == DOMAIN d # {}

\* ------------------------------------------------------------- DataFrame
Max(S) == CHOOSE x \in S : \A y \in S : y <= x

\* width of the object array pandas builds from a list of lists
Width(rows) == Max({Len(rows[i]) : i \in 1..Len(rows)})

\* a row padded with None up to width w
PadRow(row, w) == [j \in 1..w |-> IF j <= Len(row) THEN row[j] ELSE None]

ConstructorError == <<"DataFrame constructor not properly called!">>

ColumnsError(m, w) ==
    IntText(m) \o <<" columns passed, passed data had ">> \o IntText(w) \o <<" columns">>

\* a constructor that cuts or pads every row to the columns passed
DataFrameTruncating(rows, columns) ==
    IF ~rows.list
    THEN [ok |-> FALSE, err |-> ConstructorError, columns |-> columns, data |-> <<>>]
    ELSE [ok |-> TRUE, err |-> <<>>, columns |-> columns,
          data |-> [i \in 1..Len(rows.v) |-> PadRow(rows.v[i], Len(columns))]]

\* pd.DataFrame(rows, columns=columns): ok, or the ValueError it raises
DataFrame(rows, columns) ==
    IF ~rows.list
    THEN [ok |-> FALSE, err |-> ConstructorError, columns |-> columns, data |-> <<>>]
    ELSE IF rows.v = <<>>
    THEN [ok |-> TRUE, err |-> <<>>, columns |-> columns, data |-> <<>>]
    ELSE IF Width(rows.v) # Len(columns)
    THEN [ok |-> FALSE, err |-> ColumnsError(Len(columns), Width(rows.v)),
          columns |-> columns, data |-> <<>>]
    ELSE [ok |-> TRUE, err |-> <<>>, columns |-> columns,
          data |-> [i \in 1..Len(rows.v) |-> PadRow(rows.v[i], Len(columns))]]

\* ------------------------------------------------------------ to_numeric
ParseOk(s) == s # <<>> /\ \A i \in 1..Len(s) : IsDigit(s[i])

RECURSIVE ParseInt(_)
ParseInt(s) ==
    IF s = <<>> THEN 0
    ELSE 10 * ParseInt(SubSeq(s, 1, Len(s) - 1)) + DigitVal(s[Len(s)])

\* a value pd.to_numeric accepts
IsNumeric(v) == v.k \in {"int", "float", "null"} \/ (v.k = "str" /\ ParseOk(v.s))

NumberOf(v) == IF v.k = "str" THEN ParseInt(v.s) ELSE v.n

\* errors='coerce' in place of errors='ignore': value by value, a float64
\* column with NaN where a value does not parse
ToNumericCoerce(col) ==
    IF \A i \in 1..Len(col) : IsNumeric(col[i]) /\ col[i].k # "null"
    THEN [i \in 1..Len(col) |-> IntCell(NumberOf(col[i]))]
    ELSE [i \in 1..Len(col) |->
             IF IsNumeric(col[i]) /\ col[i].k # "null" THEN FloatCell(NumberOf(col[i])) ELSE None]

\* pd.to_numeric(col, errors='ignore'): the whole column converted (int64, or
\* float64 when it holds a null), or the column returned as it was
ToNumeric(col) ==
    IF \A i \in 1..Len(col) : IsNumeric(col[i])
    THEN IF \E i \in 1..Len(col) : col[i].k = "null"
         THEN [i \in 1..Len(col) |->
                  IF col[i].k = "null" THEN None ELSE FloatCell(NumberOf(col[i]))]
         ELSE [i \in 1..Len(col) |-> IntCell(NumberOf(col[i]))]
    ELSE col

Column(df, j) == [i \in 1..Len(df.data) |-> df.data[i][j]]

\* df.apply(pd.to_numeric, errors='ignore'): column by column
Apply(df) ==
    [df EXCEPT !.data =
        [i \in 1..Len(df.data) |->
            [j \in 1..Len(df.columns) |-> ToNumeric(Column(df, j))[i]]]]

\* ----------------------------------------------------------------- to_csv
\* str of a cell as to_csv writes it; a null is the empty field
CellText(v) ==
    CASE v.k = "int" -> IntText(v.n)
      [] v.k = "float" -> FloatText(v.n)
      [] v.k = "str" -> v.s
      [] v.k = "null" -> <<>>

\* one record of the csv writer: a lone empty field is written as ""
CsvLine(fields) ==
    IF Len(fields) = 1 /\ fields[1] = <<>> THEN <<"\"\"">> ELSE Join(fields, ",")

RECURSIVE CsvRows(_)
CsvRows(data) ==
    IF data = <<>> THEN <<>>
    ELSE CsvLine([j \in 1..Len(Head(data)) |-> CellText(Head(data)[j])]) \o <<"\n">>
         \o CsvRows(Tail(data))

\* df.to_csv(index=False): the header line, then one line per row (no cell
\* of Cells holds a delimiter, a quote or a line break, so none is quoted)
ToCsv(df) ==
    CsvLine([j \in 1..Len(df.columns) |-> <<df.columns[j]>>]) \o <<"\n">> \o CsvRows(df.data)

\* the lines of the CSV counted in place of the rows of the frame
row_count_with_header(df) == Len(df.data) + 1

row_count(df) == Len(df.data)

col_count(df) == Len(df.columns)

\* ------------------------------------------------------------ the context
\* f"{columns}": the repr of a list of str
ListRepr(columns) ==
    <<"[">> \o Join([j \in 1..Len(columns) |-> <<"'", columns[j], "'">>], ", ") \o <<"]">>

RenderedContext(sheet_name, df, columns) ==
    <<"The user is viewing a Tableau worksheet named '", sheet_name, "'.\n", "It contains ">>
    \o IntText(row_count(df)) \o <<" rows and ">> \o IntText(col_count(df))
    \o <<" columns.\n", "Column names: ">> \o ListRepr(columns)
    \o <<".\n",
         "The **full raw data** extracted from the current worksheet is provided below in CSV format. ",
         "Use this data to perform detailed analysis, comparisons, and calculations to answer the user's question.\n",
         "Ensure your analysis is precise and based strictly on the provided data.\n\n",
         RAW_DATA_START>>
    \o ToCsv(df) \o <<"\n", RAW_DATA_END>>

\* the except branch; its second literal is no f-string, so {columns} stays
FallbackContext(e, columns) ==
    <<"Tableau data was provided but could not be processed into CSV: ">> \o e
    \o <<". ", "Answer the question generally based on the column names: {columns}.">>

\* lines 79-120: the context of a request's payload
Context(tableau) ==
    LET tableau_info == TableauInfo(tableau)
        sheet_name == Get(tableau_info, "sheetName", UNKNOWN_WORKSHEET)
        columns == Get(tableau_info, "columns", <<>>)
        rows == Get(tableau_info, "rows", RowsList(<<>>))
        df == DataFrame(rows, columns)
    IN  IF ~Truthy(tableau_info) THEN NO_DATA_CONTEXT
        ELSE IF df.ok THEN RenderedContext(sheet_name, Apply(df), columns)
        ELSE FallbackContext(df.err, columns)

\* lines 123-130
Prompt(user_message, context) ==
    <<"You are an expert data analyst AI assistant embedded in a Tableau dashboard. ",
      "You have received the **raw data** from the user's current worksheet in CSV format. ",
      "**Perform the necessary calculations and analysis based on the provided data context.** ",
      "Answer the user's question clearly, precisely, and maintain a professional, analytic tone.\n\n",
      "User question:\n", user_message, "\n\n", "Tableau data context:\n">> \o context

\* ------------------------------------------------------- the model client
\* What gemini_model.generate_content(prompt), and reading .text of what it
\* returned, can give: an exception, a response without a text attribute,
\* one whose text is None, or one with a text.
ModelErrors == {"ServiceUnavailable('503 upstream unavailable')"}

AnswerTexts ==
    {<<>>, <<" ">>, <<"\n", " ">>, <<"4", "2">>, <<" ", "4", "2", "\n">>}

ModelOutcomes ==
    {[kind |-> "raise", text |-> <<e>>] : e \in ModelErrors}
    \cup {[kind |-> "notext", text |-> <<>>], [kind |-> "none", text |-> <<>>]}
    \cup {[kind |-> "text", text |-> t] : t \in AnswerTexts}

Pending == [kind |-> "pending", text |-> <<>>]

\* getattr(response, "text", "") or ""
TextOf(resp) == IF resp.kind = "text" THEN resp.text ELSE <<>>

\* lines 134-137
Answer(resp) == IF Strip(TextOf(resp)) = <<>> THEN FALLBACK_ANSWER ELSE TextOf(resp)

\* ChatResponse(response=answer), served as 200
ChatResponse(answer) == [status |-> 200, body |-> answer]

\* the except clause answering with the fallback in place of raising
HTTPExceptionAbsorbed(e) == ChatResponse(FALLBACK_ANSWER)

\* HTTPException(status_code=500, detail=f"Internal Server Error: {e!r}")
HTTPException(e) == [status |-> 500, body |-> <<"Internal Server Error: ">> \o e]

NoResult == [status |-> 0, body |-> <<>>]

\* ------------------------------------------------------------ the payloads
RECURSIVE Sum(_)
Sum(ls) == IF ls = <<>> THEN 0 ELSE Head(ls) + Sum(Tail(ls))

\* the row lengths of a payload: at most MaxRows rows, MaxCells cells in all
Shapes ==
    {ls \in UNION {[1..n -> 0..MaxCells] : n \in 0..MaxRows} : Sum(ls) <= MaxCells}

\* the rows of lengths ls holding the cells of flat, in order
RowsOf(ls, flat) ==
    [i \in 1..Len(ls) |->
        [j \in 1..ls[i] |-> flat[Sum(SubSeq(ls, 1, i - 1)) + j]]]

RowLists == {RowsOf(ls, flat) : <<ls, flat>> \in
                UNION {{<<l, f>> : f \in [1..Sum(l) -> Cells]} : l \in Shapes}}

ColumnLists == {SubSeq(ColumnNames, 1, m) : m \in 0..MaxCols}

Keys == {"sheetName", "columns", "rows"}

Dict(K, sheet_name, columns, rows) ==
    [key \in K |->
        CASE key = "sheetName" -> sheet_name
          [] key = "columns" -> columns
          [] key = "rows" -> rows]

\* dicts with all three keys
FullDicts ==
    {Dict(Keys, sheet_name, columns, rows) :
        sheet_name \in SheetNames, columns \in ColumnLists,
        rows \in {RowsList(v) : v \in RowLists} \cup {RowsScalar}}

\* dicts with some key missing (the empty dict among them)
PartialDicts ==
    {Dict(K, sheet_name, columns, rows) :
        K \in (SUBSET Keys) \ {Keys}, sheet_name \in SheetNames, columns \in ColumnLists,
        rows \in {RowsList(<<>>), RowsList(<<<<IntCell(100)>>>>), RowsScalar}}

Payloads ==
    {[is_none |-> TRUE, d |-> <<>>]}
    \cup {[is_none |-> FALSE, d |-> d] : d \in FullDicts \cup PartialDicts}

\* the payloads of the requests that run concurrently
FewPayloads ==
    {[is_none |-> TRUE, d |-> <<>>],
     [is_none |-> FALSE,
      d |-> Dict(Keys, "Sales", <<"Region">>, RowsList(<<<<StrCell(<<"0", "7">>)>>>>))],
     [is_none |-> FALSE,
      d |-> Dict(Keys, "Sales", <<"Region">>, RowsList(<<<<IntCell(100), None>>>>))]}

ChatRequest(message, tableau) == [message |-> message, tableau |-> tableau]

\* ----------------------------------------------------------------- state
Requests == DOMAIN pc

InitRequests(ids, messages, payloads) ==
    /\ request \in [ids -> {ChatRequest(m, t) : m \in messages, t \in payloads}]
    /\ pc = [r \in ids |-> "start"]
    /\ tableau_context = [r \in ids |-> <<>>]
    /\ prompt = [r \in ids |-> <<>>]
    /\ response = [r \in ids |-> Pending]
    /\ result = [r \in ids |-> NoResult]
    /\ calls = [r \in ids |-> 0]
    /\ gemini_model = MODEL_NAME

\* one request, any payload
Init == InitRequests({1}, {"Hello"}, Payloads)

\* two requests handled concurrently
InitConcurrent == InitRequests({1, 2}, Messages, FewPayloads)

\* --------------------------------------------------------------- actions
\* chat() without the inner try/except: an error of the table ends in the
\* outer except
BuildContextUncaught(r) ==
    LET tableau_info == TableauInfo(request[r].tableau)
        df == DataFrame(Get(tableau_info, "rows", RowsList(<<>>)),
                        Get(tableau_info, "columns", <<>>))
    IN  /\ pc[r] = "start"
        /\ IF Truthy(tableau_info) /\ ~df.ok
           THEN /\ pc' = [pc EXCEPT ![r] = "raised"]
                /\ response' = [response EXCEPT ![r] = [kind |-> "raise", text |-> df.err]]
                /\ UNCHANGED tableau_context
           ELSE /\ pc' = [pc EXCEPT ![r] = "context"]
                /\ tableau_context' =
                      [tableau_context EXCEPT ![r] = Context(request[r].tableau)]
                /\ UNCHANGED response
        /\ UNCHANGED <<request, prompt, result, calls, gemini_model>>

\* chat() keeping the context in a module-level global
BuildContextShared(r) ==
    /\ pc[r] = "start"
    /\ tableau_context' = [q \in Requests |-> Context(request[r].tableau)]
    /\ pc' = [pc EXCEPT ![r] = "context"]
    /\ UNCHANGED <<request, prompt, response, result, calls, gemini_model>>

\* lines 78-120
BuildContext(r) ==
    /\ pc[r] = "start"
    /\ tableau_context' = [tableau_context EXCEPT ![r] = Context(request[r].tableau)]
    /\ pc' = [pc EXCEPT ![r] = "context"]
    /\ UNCHANGED <<request, prompt, response, result, calls, gemini_model>>

\* lines 123-130
AssemblePrompt(r) ==
    /\ pc[r] = "context"
    /\ prompt' = [prompt EXCEPT ![r] = Prompt(request[r].message, tableau_context[r])]
    /\ pc' = [pc EXCEPT ![r] = "prompt"]
    /\ UNCHANGED <<request, tableau_context, response, result, calls, gemini_model>>

\* line 133: the call returns a response or raises into the outer except
GenerateContent(r) ==
    /\ pc[r] = "prompt"
    /\ \E outcome \in ModelOutcomes :
          /\ response' = [response EXCEPT ![r] = outcome]
          /\ pc' = [pc EXCEPT ![r] = IF outcome.kind = "raise" THEN "raised" ELSE "called"]
    /\ calls' = [calls EXCEPT ![r] = @ + 1]
    /\ UNCHANGED <<request, tableau_context, prompt, result, gemini_model>>

\* chat() calling the model again when the answer is blank
NormalizeAnswerRetry(r) ==
    /\ pc[r] = "called"
    /\ IF Strip(TextOf(response[r])) = <<>>
       THEN /\ pc' = [pc EXCEPT ![r] = "prompt"]
            /\ UNCHANGED result
       ELSE /\ pc' = [pc EXCEPT ![r] = "done"]
            /\ result' = [result EXCEPT ![r] = ChatResponse(Answer(response[r]))]
    /\ UNCHANGED <<request, tableau_context, prompt, response, calls, gemini_model>>

\* lines 134-139
NormalizeAnswer(r) ==
    /\ pc[r] = "called"
    /\ result' = [result EXCEPT ![r] = ChatResponse(Answer(response[r]))]
    /\ pc' = [pc EXCEPT ![r] = "done"]
    /\ UNCHANGED <<request, tableau_context, prompt, response, calls, gemini_model>>

\* lines 141-143
HandleException(r) ==
    /\ pc[r] = "raised"
    /\ result' = [result EXCEPT ![r] = HTTPException(response[r].text)]
    /\ pc' = [pc EXCEPT ![r] = "failed"]
    /\ UNCHANGED <<request, tableau_context, prompt, response, calls, gemini_model>>

Next ==
    \/ \E r \in Requests : BuildContext(r)
    \/ \E r \in Requests : AssemblePrompt(r)
    \/ \E r \in Requests : GenerateContent(r)
    \/ \E r \in Requests : NormalizeAnswer(r)
    \/ \E r \in Requests : HandleException(r)

Spec == Init /\ [][Next]_vars

SpecConcurrent == InitConcurrent /\ [][Next]_vars

\* =================================================================== claims
\* ------------------------------------------------- reading a text back
Contains(text, frag) == \E i \in 1..Len(text) : text[i] = frag

HasSubSeq(text, sub) ==
    \E i \in 0..(Len(text) - Len(sub)) : SubSeq(text, i + 1, i + Len(sub)) = sub

\* the place of a fragment that occurs once in the text
IndexOf(text, frag) == CHOOSE i \in 1..Len(text) : text[i] = frag

AllSpace(text) == \A i \in 1..Len(text) : IsSpace(text[i])

\* the pieces of a text between the separators sep
RECURSIVE Split(_, _)
Split(text, sep) ==
    IF text = <<>> THEN << <<>> >>
    ELSE LET rest == Split(Tail(text), sep)
         IN  IF Head(text) = sep THEN << <<>> >> \o rest
             ELSE << <<Head(text)>> \o rest[1] >> \o Tail(rest)

IsRendered(context) == Contains(context, RAW_DATA_START) /\ Contains(context, RAW_DATA_END)

IsFallback(context) ==
    /\ context # <<>>
    /\ context[1] = "Tableau data was provided but could not be processed into CSV: "

\* the lines of the CSV block between the markers: the header, then the rows
\* (the block ends with the line break of its last line and the one of line 111)
CsvLines(context) ==
    LET block == SubSeq(context, IndexOf(context, RAW_DATA_START) + 1,
                        IndexOf(context, RAW_DATA_END) - 1)
        lines == Split(block, "\n")
    IN  SubSeq(lines, 1, Len(lines) - 2)

\* a field as a CSV reader reads it
Unquoted(f) == IF f = <<"\"\"">> THEN <<>> ELSE f

\* the fields of the rows of the CSV block: Fields(context)[i][j] is the
\* field of row i under column j
Fields(context) ==
    LET lines == CsvLines(context)
    IN  [i \in 1..(Len(lines) - 1) |->
            LET fs == Split(lines[i + 1], ",")
            IN  [j \in 1..Len(fs) |-> Unquoted(fs[j])]]

\* the text of a value as the payload carried it
Received(v) ==
    CASE v.k = "int" -> IntText(v.n)
      [] v.k = "str" -> v.s
      [] v.k = "null" -> <<>>

\* a non-null value that is no number
FailsParsing(v) == v.k = "str" /\ \E i \in 1..Len(v.s) : ~IsDigit(v.s[i])

\* ------------------------------------------------- reading a payload
HasKeys(tableau) == ~tableau.is_none /\ DOMAIN tableau.d # {}

PayloadColumns(tableau) == IF "columns" \in DOMAIN tableau.d THEN tableau.d["columns"] ELSE <<>>

PayloadRows(tableau) == IF "rows" \in DOMAIN tableau.d THEN tableau.d["rows"] ELSE RowsList(<<>>)

PayloadRowList(tableau) == PayloadRows(tableau).v

IsTable(tableau) == HasKeys(tableau) /\ PayloadRows(tableau).list

N(tableau) == Len(PayloadRowList(tableau))

M(tableau) == Len(PayloadColumns(tableau))

\* every row has one value per column
Rectangular(tableau) ==
    IsTable(tableau) /\ \A i \in 1..N(tableau) : Len(PayloadRowList(tableau)[i]) = M(tableau)

\* some row has fewer or more values than there are columns
Ragged(tableau) ==
    IsTable(tableau) /\ \E i \in 1..N(tableau) : Len(PayloadRowList(tableau)[i]) # M(tableau)

LongestRow(tableau) ==
    CHOOSE w \in 0..MaxCells + 1 :
        /\ \E i \in 1..N(tableau) : Len(PayloadRowList(tableau)[i]) = w
        /\ \A i \in 1..N(tableau) : Len(PayloadRowList(tableau)[i]) <= w

ShapeSentence(n, m) ==
    <<"It contains ">> \o IntText(n) \o <<" rows and ">> \o IntText(m) \o <<" columns.\n">>

Built(r) == pc[r] # "start"

\* ---------------------------------------------------------------------- C1
\* C1: when the model call returns, a text that is absent, None, empty or all
\* whitespace gives the fixed fallback answer, any other text is returned
\* unchanged, and the request ends with a non-empty ChatResponse, never a
\* failure.
C1_AnswerNormalized ==
    \A r \in Requests :
        response[r].kind \in {"notext", "none", "text"} =>
            /\ pc[r] \in {"called", "done"}
            /\ pc[r] = "done" =>
                  /\ result[r].status = 200
                  /\ result[r].body # <<>>
                  /\ (response[r].kind # "text" \/ AllSpace(response[r].text))
                        => result[r].body = FALLBACK_ANSWER
                  /\ (response[r].kind = "text" /\ ~AllSpace(response[r].text))
                        => result[r].body = response[r].text

C1_Witness ==
    \E r \in Requests :
        /\ pc[r] = "done"
        /\ response[r].kind = "text"
        /\ response[r].text # <<>>
        /\ AllSpace(response[r].text)
        /\ result[r].body = FALLBACK_ANSWER

\* ---------------------------------------------------------------------- C2
\* C2: when the model call raises, the request ends with HTTP 500 whose
\* detail holds the error, and no ChatResponse (no answer, no fallback
\* answer) is returned.
C2_ModelErrorSurfaces ==
    \A r \in Requests :
        response[r].kind = "raise" =>
            /\ pc[r] \in {"raised", "failed"}
            /\ result[r].status # 200
            /\ result[r].body # FALLBACK_ANSWER
            /\ pc[r] = "failed" =>
                  /\ result[r].status = 500
                  /\ HasSubSeq(result[r].body, response[r].text)

C2_Witness ==
    \E r \in Requests :
        /\ pc[r] = "failed"
        /\ response[r].kind = "raise"
        /\ result[r].status = 500
        /\ HasKeys(request[r].tableau)

\* ---------------------------------------------------------------------- C3
\* C3: whatever the payload, building the context never fails the request:
\* the context is non-empty, the prompt is built on it and the model is
\* called; a request fails only after the model call raised.
C3_ContextNeverFails ==
    \A r \in Requests :
        /\ Built(r) => tableau_context[r] # <<>>
        /\ pc[r] \in {"raised", "failed"} => response[r].kind = "raise" /\ calls[r] = 1
        /\ pc[r] \in {"called", "done", "raised", "failed"} =>
              /\ calls[r] = 1
              /\ HasSubSeq(prompt[r], tableau_context[r])

C3_Witness ==
    \E r \in Requests :
        /\ pc[r] = "done"
        /\ HasKeys(request[r].tableau)
        /\ ~PayloadRows(request[r].tableau).list
        /\ IsFallback(tableau_context[r])
        /\ calls[r] = 1

\* ---------------------------------------------------------------------- C4
\* C4 as stated: for a payload that is absent, an empty object, or one whose
\* columns and rows are both empty, the context is exactly the fixed "no
\* data" sentence.
C4_Original ==
    \A r \in Requests :
        (Built(r) /\ (~HasKeys(request[r].tableau)
                      \/ (IsTable(request[r].tableau)
                          /\ N(request[r].tableau) = 0 /\ M(request[r].tableau) = 0)))
            => tableau_context[r] = NO_DATA_CONTEXT

\* C4 amended: for a payload that is absent or an empty object the context is
\* exactly the fixed "no data" sentence and a returned response is non-empty;
\* a payload object that has a key is never given that sentence: with empty
\* columns and rows it is rendered as a table of 0 rows and 0 columns.
C4_NoDataContext ==
    \A r \in Requests :
        /\ (Built(r) /\ ~HasKeys(request[r].tableau)) =>
              /\ tableau_context[r] = NO_DATA_CONTEXT
              /\ pc[r] = "done" => result[r].status = 200 /\ result[r].body # <<>>
        /\ (Built(r) /\ HasKeys(request[r].tableau)) => tableau_context[r] # NO_DATA_CONTEXT
        /\ (Built(r) /\ IsTable(request[r].tableau)
                /\ N(request[r].tableau) = 0 /\ M(request[r].tableau) = 0) =>
              /\ IsRendered(tableau_context[r])
              /\ HasSubSeq(tableau_context[r], ShapeSentence(0, 0))

C4_Witness ==
    \E r \in Requests :
        /\ pc[r] = "done"
        /\ ~request[r].tableau.is_none
        /\ DOMAIN request[r].tableau.d = {}
        /\ tableau_context[r] = NO_DATA_CONTEXT
        /\ result[r].body # <<>>

C7_FallbackNamesColumns ==
    \A r \in Requests :
        LET t == request[r].tableau
        IN  (Built(r) /\ HasKeys(t) /\ ~DataFrame(PayloadRows(t), PayloadColumns(t)).ok
                 /\ M(t) > 0) =>
                /\ HasSubSeq(tableau_context[r], DataFrame(PayloadRows(t), PayloadColumns(t)).err)
                /\ \A j \in 1..M(t) : Contains(tableau_context[r], PayloadColumns(t)[j])

\* ---------------------------------------------------------------------- C8
\* C8 as stated: a payload with a row shorter or longer than the column list
\* is still rendered into the data block, one line per row.
C8_Original ==
    \A r \in Requests :
        (Built(r) /\ Ragged(request[r].tableau)) =>
            /\ IsRendered(tableau_context[r])
            /\ Len(CsvLines(tableau_context[r])) = N(request[r].tableau) + 1

\* C8 amended: a payload with a row shorter or longer than the column list
\* never fails the request in the Context Builder.  Its rows are rendered,
\* missing cells as empty fields, exactly when its longest row has as many
\* values as there are columns; otherwise (a row longer than the column
\* list, or every row shorter) no data block is rendered and the context is
\* the fallback text holding the width error.
C8_RaggedRows ==
    \A r \in Requests :
        LET t == request[r].tableau
            rows == PayloadRowList(t)
            longest == LongestRow(t)
            fields == Fields(tableau_context[r])
        IN  (Built(r) /\ Ragged(t)) =>
                /\ tableau_context[r] # <<>>
                /\ pc[r] \in {"raised", "failed"} => response[r].kind = "raise"
                /\ longest = M(t) =>
                      /\ IsRendered(tableau_context[r])
                      /\ HasSubSeq(tableau_context[r], ShapeSentence(N(t), M(t)))
                      /\ Len(fields) = N(t)
                      /\ \A i \in 1..N(t) : \A j \in 1..M(t) :
                            j > Len(rows[i]) => fields[i][j] = <<>>
                /\ longest # M(t) =>
                      /\ ~IsRendered(tableau_context[r])
                      /\ IsFallback(tableau_context[r])
                      /\ HasSubSeq(tableau_context[r],
                            IntText(M(t)) \o <<" columns passed, passed data had ">>
                            \o IntText(longest) \o <<" columns">>)

C8_Witness ==
    \E r \in Requests :
        /\ Built(r)
        /\ Ragged(request[r].tableau)
        /\ M(request[r].tableau) = 2
        /\ LongestRow(request[r].tableau) = 2
        /\ Len(PayloadRowList(request[r].tableau)[1]) = 1
        /\ IsRendered(tableau_context[r])
        /\ Fields(tableau_context[r])[1][2] = <<>>

\* ---------------------------------------------------------------------- C9
\* C9: within a request the context is built, then the prompt, then the
\* model is called, then the result is normalised; the model is called
\* exactly once per request, never before the context is fixed and never
\* again after an empty result or an error.
C9_Order ==
    \A r \in Requests :
        /\ calls[r] <= 1
        /\ prompt[r] # <<>> => tableau_context[r] # <<>>
        /\ calls[r] = 1 => prompt[r] # <<>> /\ response[r] # Pending
        /\ calls[r] = 0 => response[r] = Pending /\ result[r] = NoResult
        /\ result[r] # NoResult => calls[r] = 1
        /\ pc[r] \in {"done", "failed"} => calls[r] = 1 /\ result[r] # NoResult

C9_Step ==
    \A r \in Requests :
        /\ tableau_context[r] # <<>> => tableau_context'[r] = tableau_context[r]
        /\ prompt[r] # <<>> => prompt'[r] = prompt[r]
        /\ calls'[r] # calls[r] =>
              /\ calls[r] = 0
              /\ prompt[r] = Prompt(request[r].message, tableau_context[r])
              /\ tableau_context[r] # <<>>
        /\ calls[r] = 1 => calls'[r] = 1 /\ response'[r] = response[r]
        /\ result[r] # NoResult => result'[r] = result[r]

C9_SingleCallInOrder == [](C9_Order) /\ [][C9_Step]_vars

C9_Witness ==
    \E r \in Requests :
        /\ pc[r] = "done"
        /\ calls[r] = 1
        /\ response[r].kind = "text"
        /\ response[r].text = <<>>
        /\ result[r].body = FALLBACK_ANSWER

\* --------------------------------------------------------------------- C10
\* C10: under any interleaving, a request's context and prompt are built
\* from its own message and payload only, its outcome is decided by the
\* model's result for it only, and a step of one request changes nothing of
\* another; the shared model client never changes.
C10_Own ==
    \A r \in Requests :
        /\ Built(r) => tableau_context[r] = Context(request[r].tableau)
        /\ pc[r] \notin {"start", "context"} =>
              prompt[r] = Prompt(request[r].message, Context(request[r].tableau))
        /\ pc[r] = "done" => result[r] = ChatResponse(Answer(response[r]))
        /\ pc[r] = "failed" => result[r] = HTTPException(response[r].text)
        /\ gemini_model = MODEL_NAME

C10_Step ==
    \E r \in Requests :
        /\ request' = request
        /\ gemini_model' = gemini_model
        /\ \A q \in Requests \ {r} :
              /\ pc'[q] = pc[q]
              /\ tableau_context'[q] = tableau_context[q]
              /\ prompt'[q] = prompt[q]
              /\ response'[q] = response[q]
              /\ result'[q] = result[q]
              /\ calls'[q] = calls[q]

C10_Independent == [](C10_Own) /\ [][C10_Step]_vars

C10_Witness ==
    \E r \in Requests : \E q \in Requests :
        /\ r # q
        /\ pc[r] = "done"
        /\ pc[q] = "failed"
        /\ request[r].message # request[q].message
        /\ tableau_context[r] # tableau_context[q]
        /\ IsRendered(tableau_context[r])
        /\ IsFallback(tableau_context[q])

====
